---- MODULE Spec2Model ----
(***************************************************************************)
(* westures-core: the input-tracking and dispatch engine.                  *)
(*                                                                         *)
(*   Region       src/src/Region.js       bindings, arbitrate, bind/unbind *)
(*   Input        src/src/Input.js        initial / previous / current     *)
(*   PointerData  src/src/PointerData.js  one snapshot per (event, id)     *)
(*   State, Binding, PHASE                modelled from spec.md 4.1-4.4    *)
(*                                                                         *)
(* A raw event is delivered by the host to every Region that listens for   *)
(* its type on an element of the event's propagation path.  One arbitrate  *)
(* pass runs to completion before the host delivers anything else          *)
(* (single-threaded dispatch); the pass is split into its four steps so    *)
(* that what a hook observes is a state of the model.                      *)
(***************************************************************************)
EXTENDS Integers, Sequences, FiniteSets, TLC

VARIABLES
    device,          \* the host's input device: "touch", "mouse" or "pointer"
    gestures,        \* the gesture objects: name -> what each hook returns
    contacts,        \* host: identifiers of the contacts that are down
    region,          \* Region objects: element, capture, preventDefault, eventNames
    bindings,        \* region -> this.bindings
    inputs,          \* region -> this.state, the registry (insertion order)
    event,           \* the raw event the host emitted last
    prevented,       \* whether event.preventDefault() was called on it
    queue,           \* regions whose listener still has to run for event
    pc,              \* position inside the arbitrate pass of Head(queue)
    selected,        \* the array returned by retrieveBindingsByInitialPos
    idx,             \* forEach index into selected
    hookCalls,       \* hooks invoked in this pass
    handlerCalls,    \* handlers invoked in this pass
    clock,           \* Date.now(), one tick per raw event
    nextRef,         \* next PointerData object identity
    nextBinding,     \* next Binding object identity
    returned,        \* what the last bind / unbind call returned
    unit             \* the direct call made on one object, if any

vars == <<device, gestures, contacts, region, bindings, inputs, event, prevented,
          queue, pc, selected, idx, hookCalls, handlerCalls, clock, nextRef,
          nextBinding, returned, unit>>

(* ------------------------------ bounds --------------------------------- *)

\* Raw events the host emits in one behaviour.
MaxEvents == 3

\* Binding objects created in one behaviour.
MaxBinds == 2

\* Length of the binding list a direct unbind call starts from.
MaxList == 3

\* Direct update calls on one Input.
MaxUpdates == 2

\* Direct calls on the Inputs whose progress objects are examined.
MaxCalls == 3

(* ------------------------------ the page ------------------------------- *)

\* document > A > B; window is the last stop of every propagation path.
parentNode == [A |-> "document", B |-> "A"]

Targets == {"A", "B"}

Elements == {"window", "document", "A", "B"}

\* Where a pointer is when it is over a target (B lies inside A).
ClientPoint == [A |-> [x |-> 1, y |-> 3], B |-> [x |-> 2, y |-> 4]]

TouchIds == {1, 2}

\* event.button of the primary mouse button.
MouseIds == {0}

PointerIds == {1, 2}

NaN == 0 - 1

(* ------------------------------ Region.js ------------------------------ *)

POINTER_EVENTS == <<"pointerdown", "pointermove", "pointerup">>

MOUSE_EVENTS == <<"mousedown", "mousemove", "mouseup">>

TOUCH_EVENTS == <<"touchstart", "touchmove", "touchend">>

Range(s) == {s[i] : i \in DOMAIN s}

\* The listeners activate() installs on the region's element.
activate(touchOrMouse) ==
    IF touchOrMouse THEN Range(MOUSE_EVENTS \o TOUCH_EVENTS)
    ELSE Range(POINTER_EVENTS)

(* ------------------------------ PHASE ---------------------------------- *)

Phases == {"start", "move", "end", "cancel"}

\* The type -> phase table; "undefined" for a type it does not hold.
PHASE(type) ==
    CASE type \in {"mousedown", "touchstart", "pointerdown"} -> "start"
      [] type \in {"mousemove", "touchmove", "pointermove"} -> "move"
      [] type \in {"mouseup", "touchend", "pointerup"} -> "end"
      [] type \in {"touchcancel", "pointercancel"} -> "cancel"
      [] OTHER -> "undefined"

(* ------------------------------ raw events ----------------------------- *)

Touch(id, p) == [identifier |-> id, clientX |-> p.x, clientY |-> p.y]

\* A TouchEvent carries changedTouches and no coordinates of its own.
TouchEvent(type, target, touches) ==
    [type |-> type, target |-> target, hasTouches |-> TRUE,
     changedTouches |-> touches, identifier |-> NaN,
     clientX |-> NaN, clientY |-> NaN]

\* A MouseEvent or PointerEvent: one identifier, its own coordinates.
SingleEvent(type, target, id, p) ==
    [type |-> type, target |-> target, hasTouches |-> FALSE,
     changedTouches |-> <<>>, identifier |-> id,
     clientX |-> p.x, clientY |-> p.y]

NoEvent == SingleEvent("none", "document", NaN, [x |-> NaN, y |-> NaN])

\* Sequences of one or two identifiers of S, in ascending order.
IdLists(S) ==
    {<<a>> : a \in S} \cup {<<a, b>> : <<a, b>> \in {p \in S \X S : p[1] < p[2]}}

TouchList(ids, p) == [i \in DOMAIN ids |-> Touch(ids[i], p)]

(* ------------------------------ PointerData.js ------------------------- *)

\* a === b on numbers: NaN equals nothing, itself included.
StrictEquals(a, b) == a # NaN /\ b # NaN /\ a = b

\* Array.prototype.find over changedTouches: the index of the first entry
\* with the identifier, 0 when there is none.
FindTouch(touches, identifier) ==
    IF \E i \in DOMAIN touches : StrictEquals(touches[i].identifier, identifier)
    THEN CHOOSE i \in DOMAIN touches :
            /\ StrictEquals(touches[i].identifier, identifier)
            /\ \A j \in 1..(i - 1) :
                    ~StrictEquals(touches[j].identifier, identifier)
    ELSE 0

\* Mutant: when no touch has the identifier the event itself is used.
getEventObjectOrEvent(ev, identifier) ==
    LET i == IF ev.hasTouches THEN FindTouch(ev.changedTouches, identifier) ELSE 0 IN
    IF i = 0
    THEN [defined |-> TRUE, clientX |-> ev.clientX, clientY |-> ev.clientY]
    ELSE [defined |-> TRUE, clientX |-> ev.changedTouches[i].clientX,
          clientY |-> ev.changedTouches[i].clientY]

\* Mutant: the first entry of changedTouches is taken, whatever its
\* identifier, once some entry has the identifier.
getEventObjectFirstTouch(ev, identifier) ==
    IF ev.hasTouches
    THEN IF FindTouch(ev.changedTouches, identifier) = 0
         THEN [defined |-> FALSE, clientX |-> NaN, clientY |-> NaN]
         ELSE [defined |-> TRUE, clientX |-> ev.changedTouches[1].clientX,
               clientY |-> ev.changedTouches[1].clientY]
    ELSE [defined |-> TRUE, clientX |-> ev.clientX, clientY |-> ev.clientY]

\* The object that holds clientX / clientY for the identifier; defined is
\* FALSE when find() returned undefined.
getEventObject(ev, identifier) ==
    IF ev.hasTouches
    THEN LET i == FindTouch(ev.changedTouches, identifier) IN
         IF i = 0
         THEN [defined |-> FALSE, clientX |-> NaN, clientY |-> NaN]
         ELSE [defined |-> TRUE, clientX |-> ev.changedTouches[i].clientX,
               clientY |-> ev.changedTouches[i].clientY]
    ELSE [defined |-> TRUE, clientX |-> ev.clientX, clientY |-> ev.clientY]

Point2D(x, y) == [x |-> x, y |-> y]

\* new PointerData(event, identifier) reads eventObj.clientX: a TypeError
\* when getEventObject returned undefined.
PointerDataThrows(ev, identifier) == ~getEventObject(ev, identifier).defined

\* Mutant: the snapshot keeps the raw event type instead of its phase.
PointerDataOfRawType(ev, identifier, ref, time) ==
    LET eventObj == getEventObject(ev, identifier) IN
    [ref |-> ref, originalEvent |-> ev, type |-> ev.type, time |-> time,
     point |-> Point2D(eventObj.clientX, eventObj.clientY)]

\* new PointerData(event, identifier); ref is the identity of the new
\* object and time the value of Date.now().
PointerData(ev, identifier, ref, time) ==
    LET eventObj == getEventObject(ev, identifier) IN
    [ref |-> ref, originalEvent |-> ev, type |-> PHASE(ev.type), time |-> time,
     point |-> Point2D(eventObj.clientX, eventObj.clientY)]

\* new PointerData(...args) as the caller sees it: threw tells whether the
\* constructor raised a TypeError, made holds the object when it did not.
\* Without an event, event.type is read from undefined; with an event
\* whose changedTouches has no entry for the identifier, clientX is.
NewPointerData(args, ref, time) ==
    IF Len(args) = 0 THEN [threw |-> TRUE, made |-> <<>>]
    ELSE IF PointerDataThrows(args[1], args[2]) THEN [threw |-> TRUE, made |-> <<>>]
    ELSE [threw |-> FALSE, made |-> <<PointerData(args[1], args[2], ref, time)>>]

(* ------------------------------ Input.js ------------------------------- *)

RECURSIVE PathFrom(_)
\* The loop of getPropagationPath: from the node up to, excluding, document.
PathFrom(node) ==
    IF node = "document" THEN <<>> ELSE <<node>> \o PathFrom(parentNode[node])

\* event.composedPath() gives the same path when the host provides it.
getPropagationPath(ev) == PathFrom(ev.target) \o <<"document", "window">>

getElementsInPath(ev) == Range(getPropagationPath(ev))

\* A plain object with no property of its own, as {} creates it.
EmptyObject == [k \in {} |-> k]

\* What every plain object inherits from Object.prototype: the constructor
\* property is the function Object, one object shared by all (identity 0;
\* the objects the program creates are numbered from 1).
ObjectPrototype ==
    [constructor |-> [ref |-> 0, data |-> {"prototype", "keys"}]]

\* The value of reading a property that is neither own nor inherited.
Undefined == [ref |-> NaN, data |-> {}]

\* obj[id] on a plain object: an own property, else an inherited one.
GetProperty(obj, id) ==
    IF id \in DOMAIN obj THEN obj[id]
    ELSE IF id \in DOMAIN ObjectPrototype THEN ObjectPrototype[id]
    ELSE Undefined

\* obj[id] = value
SetProperty(obj, id, value) ==
    [k \in DOMAIN obj \cup {id} |-> IF k = id THEN value ELSE obj[k]]

\* new Input(event, identifier)
Input(ev, identifier, ref, time) ==
    LET currentData == PointerData(ev, identifier, ref, time) IN
    [initialElements |-> getElementsInPath(ev), initial |-> currentData,
     current |-> currentData, previous |-> currentData,
     identifier |-> identifier, progress |-> EmptyObject]

\* get phase()
phase(input) == input.current.type

\* Mutant: the new snapshot is stored before the old one is moved on.
updateCurrentFirst(input, ev, ref, time) ==
    LET data == PointerData(ev, input.identifier, ref, time) IN
    [input EXCEPT !.current = data, !.previous = data]

\* Mutant: the start elements are taken again from the updating event.
updateRecapturing(input, ev, ref, time) ==
    [input EXCEPT !.previous = input.current,
                  !.current = PointerData(ev, input.identifier, ref, time),
                  !.initialElements = getElementsInPath(ev)]

\* input.update(event)
update(input, ev, ref, time) ==
    [input EXCEPT !.previous = input.current,
                  !.current = PointerData(ev, input.identifier, ref, time)]

wasInitiallyInside(input, element) == element \in input.initialElements

\* input.getProgressOfGesture(id): the input afterwards and the object
\* returned; ref is the identity of the {} it creates when progress[id] is
\* falsy.  Every object is truthy, undefined is not.
getProgressOfGesture(input, id, ref) ==
    LET progress ==
            IF GetProperty(input.progress, id) = Undefined
            THEN SetProperty(input.progress, id, [ref |-> ref, data |-> {}])
            ELSE input.progress
    IN [input |-> [input EXCEPT !.progress = progress],
        value |-> GetProperty(progress, id)]

(* ------------------------------ State ---------------------------------- *)

\* The identifiers a raw event carries, in the order it carries them.
EventIdentifiers(ev) ==
    IF ev.hasTouches
    THEN [i \in DOMAIN ev.changedTouches |-> ev.changedTouches[i].identifier]
    ELSE <<ev.identifier>>

\* Index of the input with the identifier in the registry, 0 when unknown.
IndexOfInput(reg, identifier) ==
    IF \E i \in DOMAIN reg : reg[i].identifier = identifier
    THEN CHOOSE i \in DOMAIN reg : reg[i].identifier = identifier
    ELSE 0

\* One identifier of the raw event: a new Input when it is unknown, update
\* on the existing Input otherwise.
updateInput(reg, ev, identifier, ref, time) ==
    LET i == IndexOfInput(reg, identifier) IN
    IF i = 0
    THEN Append(reg, Input(ev, identifier, ref, time))
    ELSE [reg EXCEPT ![i] = update(reg[i], ev, ref, time)]

RECURSIVE updateEach(_, _, _, _, _)
updateEach(reg, ev, ids, ref, time) ==
    IF ids = <<>> THEN reg
    ELSE updateEach(updateInput(reg, ev, Head(ids), ref, time),
                    ev, Tail(ids), ref + 1, time)

\* state.updateAllInputs(event, element): every identifier of the event is
\* reconciled; the k-th PointerData built gets identity ref + k - 1.
updateAllInputs(reg, ev, ref, time) ==
    updateEach(reg, ev, EventIdentifiers(ev), ref, time)

\* new PointerData throws for some identifier of the event.
updateAllInputsThrows(ev) ==
    \E id \in Range(EventIdentifiers(ev)) : PointerDataThrows(ev, id)

\* One identifier for which new PointerData throws: a new Input is not
\* constructed; a known Input is left by update with previous already
\* moved on to current (Input.js:118 runs before the throw of line 119).
updateInputThrowing(reg, identifier) ==
    LET i == IndexOfInput(reg, identifier) IN
    IF i = 0 THEN reg
    ELSE [reg EXCEPT ![i] = [reg[i] EXCEPT !.previous = reg[i].current]]

RECURSIVE updateEachUntilThrow(_, _, _, _, _)
\* The identifiers are reconciled one after the other, each change being
\* made as it is reached; the first throw ends the loop.  built counts the
\* PointerData objects made before it.
updateEachUntilThrow(reg, ev, ids, ref, time) ==
    IF ids = <<>> THEN [reg |-> reg, built |-> 0]
    ELSE IF PointerDataThrows(ev, Head(ids))
         THEN [reg |-> updateInputThrowing(reg, Head(ids)), built |-> 0]
         ELSE LET rest == updateEachUntilThrow(
                              updateInput(reg, ev, Head(ids), ref, time),
                              ev, Tail(ids), ref + 1, time)
              IN [reg |-> rest.reg, built |-> rest.built + 1]

\* state.updateAllInputs(event, element) up to the throw that ends it.
updateAllInputsUntilThrow(reg, ev, ref, time) ==
    updateEachUntilThrow(reg, ev, EventIdentifiers(ev), ref, time)

\* state.clearEndedInputs()
clearEndedInputs(reg) ==
    LET Alive(i) == phase(i) \notin {"end", "cancel"} IN SelectSeq(reg, Alive)

\* state.someInputWasInitiallyInside(element)
someInputWasInitiallyInside(reg, element) ==
    \E i \in DOMAIN reg : wasInitiallyInside(reg[i], element)

\* Mutant: the inputs are chosen by the phase of their previous snapshot.
getInputsInPreviousPhase(reg, p) ==
    LET InPhase(i) == i.previous.type = p IN SelectSeq(reg, InPhase)

\* state.getInputsInPhase(phase)
getInputsInPhase(reg, p) ==
    LET InPhase(i) == phase(i) = p IN SelectSeq(reg, InPhase)

(* ------------------------------ Binding -------------------------------- *)

\* What a hook may hand back; "absent" stands for a gesture without the hook.
HookResults == {"absent", "null", "undefined", "0", "false", "''", "{}", "{x:91}"}

\* new Binding(element, gesture, handler); ref is the object's identity.
Binding(ref, element, gesture, handler) ==
    [ref |-> ref, element |-> element, gesture |-> gesture, handler |-> handler]

\* this.gesture[hook], "absent" when the gesture has no such method.
GestureHook(table, gesture, hook) ==
    IF hook \in DOMAIN table[gesture] THEN table[gesture][hook] ELSE "absent"

\* The hook invocations of binding.evaluateHook(hook, state): the gesture's
\* method of that name, called with the state.
HookInvocations(table, b, hook, state) ==
    IF GestureHook(table, b.gesture, hook) = "absent" THEN <<>>
    ELSE <<[binding |-> b.ref, hook |-> hook, args |-> <<state>>]>>

\* The handler invocations of binding.evaluateHook(hook, state): one, with
\* the hook's value, unless the hook is absent or returned null / nothing.
HandlerInvocations(table, b, hook, state) ==
    LET data == GestureHook(table, b.gesture, hook) IN
    IF data \in {"absent", "null", "undefined"} THEN <<>>
    ELSE <<[binding |-> b.ref, handler |-> b.handler, args |-> <<data>>]>>

\* Mutant: the handler is called when the hook's value is truthy.
evaluateHookIfTruthy(table, b, hook, state) ==
    LET data == GestureHook(table, b.gesture, hook) IN
    [hookCalls |-> HookInvocations(table, b, hook, state),
     handlerCalls |->
        IF data \in {"absent", "null", "undefined", "0", "false", "''"} THEN <<>>
        ELSE <<[binding |-> b.ref, handler |-> b.handler, args |-> <<data>>]>>]

\* Mutant: a missing hook falls back to the start hook.
evaluateHookOrStart(table, b, hook, state) ==
    LET h == IF GestureHook(table, b.gesture, hook) = "absent" THEN "start"
             ELSE hook
    IN [hookCalls |-> HookInvocations(table, b, h, state),
        handlerCalls |-> HandlerInvocations(table, b, h, state)]

\* binding.evaluateHook(hook, state): the calls it makes.
evaluateHook(table, b, hook, state) ==
    [hookCalls |-> HookInvocations(table, b, hook, state),
     handlerCalls |-> HandlerInvocations(table, b, hook, state)]

(* ------------------------------ Region --------------------------------- *)

\* new Region(element, capture, preventDefault) in a window that has, or has
\* not, TouchEvent / MouseEvent.
Region(element, capture, preventDefault, touchOrMouse) ==
    [element |-> element, capture |-> capture, preventDefault |-> preventDefault,
     eventNames |-> activate(touchOrMouse)]

\* Mutant: the new binding is put in front (unshift).
bindInFront(list, b) == <<b>> \o list

\* this.bindings.push(new Binding(...))
bind(list, b) == Append(list, b)

\* this.bindings.filter(b => b.element === element)
retrieveBindingsByElement(list, element) ==
    LET SameElement(b) == b.element = element IN SelectSeq(list, SameElement)

\* Mutant: the bindings are chosen by where the inputs are now.
retrieveBindingsByCurrentPos(list, reg) ==
    LET Over(b) == \E i \in DOMAIN reg :
                       b.element \in getElementsInPath(reg[i].current.originalEvent)
    IN SelectSeq(list, Over)

\* Mutant: inputs that have ended no longer count.
retrieveBindingsOfLiveInputs(list, reg) ==
    LET Began(b) == \E i \in DOMAIN reg :
                        /\ wasInitiallyInside(reg[i], b.element)
                        /\ phase(reg[i]) # "end"
    IN SelectSeq(list, Began)

\* Mutant: the bindings are collected input by input, so a binding is
\* listed once for every input that began inside its element.
retrieveBindingsPerInput(list, reg) ==
    LET per[k \in 0..Len(reg)] ==
            IF k = 0 THEN <<>>
            ELSE per[k - 1] \o
                 SelectSeq(list, LAMBDA b : wasInitiallyInside(reg[k], b.element))
    IN per[Len(reg)]

\* this.bindings.filter(b => this.state.someInputWasInitiallyInside(b.element))
retrieveBindingsByInitialPos(list, reg) ==
    LET Began(b) == someInputWasInitiallyInside(reg, b.element) IN
    SelectSeq(list, Began)

\* Array.prototype.indexOf by identity, 1-based; 0 when absent.
IndexOf(list, b) ==
    IF \E i \in DOMAIN list : list[i].ref = b.ref
    THEN CHOOSE i \in DOMAIN list :
            /\ list[i].ref = b.ref
            /\ \A j \in 1..(i - 1) : list[j].ref # b.ref
    ELSE 0

\* list.splice(i, 1) with i = indexOf(...): an index of -1 (here 0) counts
\* from the end and removes the last element.
Splice(list, i) ==
    LET k == IF i = 0 THEN Len(list) ELSE i IN
    IF list = <<>> THEN list
    ELSE SubSeq(list, 1, k - 1) \o SubSeq(list, k + 1, Len(list))

RECURSIVE unbindEach(_, _, _, _)
\* The forEach of unbind over the bindings of the element.
unbindEach(list, matched, gesture, unbound) ==
    IF matched = <<>> THEN [bindings |-> list, unbound |-> unbound]
    ELSE LET b == Head(matched) IN
         IF gesture = "undefined" \/ b.gesture = gesture
         THEN unbindEach(Splice(list, IndexOf(list, b)), Tail(matched),
                         gesture, Append(unbound, b))
         ELSE unbindEach(list, Tail(matched), gesture, unbound)

RECURSIVE unbindInPlace(_, _, _, _, _)
\* Mutant: the matches are spliced out of this.bindings while a forEach
\* walks this.bindings itself, so the binding after a match is skipped.
unbindInPlace(list, i, element, gesture, unbound) ==
    IF i > Len(list) THEN [bindings |-> list, unbound |-> unbound]
    ELSE IF /\ list[i].element = element
            /\ (gesture = "undefined" \/ list[i].gesture = gesture)
         THEN unbindInPlace(Splice(list, i), i + 1, element, gesture,
                            Append(unbound, list[i]))
         ELSE unbindInPlace(list, i + 1, element, gesture, unbound)

unbindSkipping(list, element, gesture) ==
    unbindInPlace(list, 1, element, gesture, <<>>)

\* region.unbind(element, gesture): the list left and the list returned.
unbind(list, element, gesture) ==
    unbindEach(list, retrieveBindingsByElement(list, element), gesture, <<>>)

(* ------------------------------ the host ------------------------------- *)

RegionOrder == <<"r1", "r2">>

BindElements == {"A", "B"}

Handlers == {"h"}

Devices == {"touch", "mouse", "pointer"}

\* window.TouchEvent || window.MouseEvent
hasTouchOrMouse(dev) == dev \in {"touch", "mouse"}

\* The gesture the application binds: it has no cancel hook.
MainGestures ==
    [Pan |-> [start |-> "{}", move |-> "{x:91}", end |-> "null"]]

\* Touch events the host can emit: a contact starts when it is not down,
\* and moves, ends or is cancelled when it is down.
HostTouchEvents(down) ==
    {TouchEvent("touchstart", t, TouchList(ids, ClientPoint[t])) :
        <<t, ids>> \in Targets \X IdLists(TouchIds \ down)}
    \cup
    {TouchEvent(ty, t, TouchList(ids, ClientPoint[t])) :
        <<ty, t, ids>> \in {"touchmove", "touchend", "touchcancel"} \X Targets
                            \X IdLists(TouchIds \cap down)}

\* Mouse events: the mouse moves whether or not the button is down.
HostMouseEvents(down) ==
    {SingleEvent(ty, t, id, ClientPoint[t]) :
        <<ty, t, id>> \in {"mousemove"} \X Targets \X MouseIds}
    \cup
    {SingleEvent("mousedown", t, id, ClientPoint[t]) :
        <<t, id>> \in Targets \X (MouseIds \ down)}
    \cup
    {SingleEvent("mouseup", t, id, ClientPoint[t]) :
        <<t, id>> \in Targets \X (MouseIds \cap down)}

\* Pointer events of pointers that are down.
HostPointerEvents(down) ==
    {SingleEvent("pointerdown", t, id, ClientPoint[t]) :
        <<t, id>> \in Targets \X (PointerIds \ down)}
    \cup
    {SingleEvent(ty, t, id, ClientPoint[t]) :
        <<ty, t, id>> \in {"pointermove", "pointerup", "pointercancel"} \X Targets
                           \X (PointerIds \cap down)}

\* The raw events the host's one input device can emit next.
HostEvents(dev, down) ==
    CASE dev = "touch" -> HostTouchEvents(down)
      [] dev = "mouse" -> HostMouseEvents(down)
      [] OTHER -> HostPointerEvents(down)

\* The contacts that are down once the host has emitted the event.
ContactsAfter(down, ev) ==
    LET ids == Range(EventIdentifiers(ev)) IN
    CASE PHASE(ev.type) = "start" -> down \cup ids
      [] PHASE(ev.type) \in {"end", "cancel"} -> down \ ids
      [] OTHER -> down

\* The regions whose listener runs for the event: those that listen for
\* its type on an element of its propagation path.
Listening(regs, ev) ==
    LET Hears(r) == /\ r \in DOMAIN regs
                    /\ ev.type \in regs[r].eventNames
                    /\ regs[r].element \in getElementsInPath(ev)
    IN SelectSeq(RegionOrder, Hears)

\* No object has been called directly.
NoCall == [op |-> "none", args |-> <<>>, before |-> <<>>]

(* ------------------------------ actions -------------------------------- *)

Idle == pc = "idle"

\* The host emits a raw event and queues the listeners it reaches.
HostDispatch ==
    /\ Idle
    /\ clock < MaxEvents
    /\ \E ev \in HostEvents(device, contacts) :
        /\ event' = ev
        /\ contacts' = ContactsAfter(contacts, ev)
        /\ queue' = Listening(region, ev)
    /\ prevented' = FALSE
    /\ clock' = clock + 1
    /\ pc' = IF queue' = <<>> THEN "idle" ELSE "update"
    /\ returned' = <<>>
    /\ UNCHANGED <<device, gestures, region, bindings, inputs, selected,
                   idx, hookCalls, handlerCalls, nextRef, nextBinding, unit>>

\* Mutant: the ended inputs are purged right after the update.
ArbitrateUpdateAndClear ==
    /\ pc = "update"
    /\ LET r == Head(queue) IN
        /\ prevented' = (prevented \/ region[r].preventDefault)
        /\ inputs' = [inputs EXCEPT
                        ![r] = clearEndedInputs(
                                 updateAllInputs(inputs[r], event, nextRef, clock))]
    /\ nextRef' = nextRef + Len(EventIdentifiers(event))
    /\ pc' = "select"
    /\ UNCHANGED <<device, gestures, contacts, region, bindings, event,
                   queue, selected, idx, hookCalls, handlerCalls, clock,
                   nextBinding, returned, unit>>

\* Mutant: every identifier of the event gets a new Input, known or not.
ArbitrateUpdateAppending ==
    /\ pc = "update"
    /\ LET r == Head(queue)
           ids == EventIdentifiers(event)
       IN /\ prevented' = (prevented \/ region[r].preventDefault)
          /\ inputs' = [inputs EXCEPT
                          ![r] = @ \o [k \in DOMAIN ids |->
                                        Input(event, ids[k], nextRef + k - 1, clock)]]
    /\ nextRef' = nextRef + Len(EventIdentifiers(event))
    /\ pc' = "select"
    /\ UNCHANGED <<device, gestures, contacts, region, bindings, event,
                   queue, selected, idx, hookCalls, handlerCalls, clock,
                   nextBinding, returned, unit>>

\* arbitrate, first step: preventDefault and state.updateAllInputs.
ArbitrateUpdate ==
    /\ pc = "update"
    /\ LET r == Head(queue) IN
        /\ prevented' = (prevented \/ region[r].preventDefault)
        /\ inputs' = [inputs EXCEPT
                        ![r] = updateAllInputs(inputs[r], event, nextRef, clock)]
    /\ nextRef' = nextRef + Len(EventIdentifiers(event))
    /\ pc' = "select"
    /\ UNCHANGED <<device, gestures, contacts, region, bindings, event,
                   queue, selected, idx, hookCalls, handlerCalls, clock,
                   nextBinding, returned, unit>>

\* arbitrate, second step: retrieveBindingsByInitialPos().
ArbitrateSelect ==
    /\ pc = "select"
    /\ LET r == Head(queue) IN
        selected' = retrieveBindingsByInitialPos(bindings[r], inputs[r])
    /\ idx' = 1
    /\ pc' = "dispatch"
    /\ UNCHANGED <<device, gestures, contacts, region, bindings, inputs,
                   event, prevented, queue, hookCalls, handlerCalls, clock,
                   nextRef, nextBinding, returned, unit>>

\* Mutant: the hooks get the state of the Region constructed first, as if
\* the state were shared by all Regions.
ArbitrateEvaluateFirstState ==
    /\ pc = "dispatch"
    /\ idx <= Len(selected)
    /\ LET b == selected[idx]
           hook == PHASE(event.type)
           calls == evaluateHook(gestures, b, hook, RegionOrder[1])
       IN /\ hookCalls' = hookCalls \o calls.hookCalls
          /\ handlerCalls' = handlerCalls \o calls.handlerCalls
    /\ idx' = idx + 1
    /\ UNCHANGED <<device, gestures, contacts, region, bindings, inputs,
                   event, prevented, queue, pc, selected, clock, nextRef,
                   nextBinding, returned, unit>>

\* arbitrate, third step: one iteration of the forEach,
\* binding.evaluateHook(PHASE[event.type], this.state).
ArbitrateEvaluate ==
    /\ pc = "dispatch"
    /\ idx <= Len(selected)
    /\ LET r == Head(queue)
           b == selected[idx]
           hook == PHASE(event.type)
           calls == evaluateHook(gestures, b, hook, r)
       IN /\ hookCalls' = hookCalls \o calls.hookCalls
          /\ handlerCalls' = handlerCalls \o calls.handlerCalls
    /\ idx' = idx + 1
    /\ UNCHANGED <<device, gestures, contacts, region, bindings, inputs,
                   event, prevented, queue, pc, selected, clock, nextRef,
                   nextBinding, returned, unit>>

\* Mutant: the listener returns without purging.
ArbitrateReturn ==
    /\ pc = "dispatch"
    /\ idx > Len(selected)
    /\ queue' = Tail(queue)
    /\ pc' = IF queue' = <<>> THEN "idle" ELSE "update"
    /\ selected' = <<>>
    /\ idx' = 1
    /\ hookCalls' = <<>>
    /\ handlerCalls' = <<>>
    /\ UNCHANGED <<device, gestures, contacts, region, bindings, inputs, event,
                   prevented, clock, nextRef, nextBinding, returned, unit>>

\* arbitrate, last step: state.clearEndedInputs(), and the listener returns.
ArbitrateClear ==
    /\ pc = "dispatch"
    /\ idx > Len(selected)
    /\ LET r == Head(queue) IN
        inputs' = [inputs EXCEPT ![r] = clearEndedInputs(inputs[r])]
    /\ queue' = Tail(queue)
    /\ pc' = IF queue' = <<>> THEN "idle" ELSE "update"
    /\ selected' = <<>>
    /\ idx' = 1
    /\ hookCalls' = <<>>
    /\ handlerCalls' = <<>>
    /\ UNCHANGED <<device, gestures, contacts, region, bindings, event,
                   prevented, clock, nextRef, nextBinding, returned, unit>>

\* Mutant: the binding list is one array shared by all Regions.
CallBindShared ==
    /\ Idle
    /\ nextBinding <= MaxBinds
    /\ \E e \in BindElements, g \in DOMAIN gestures, h \in Handlers :
        bindings' = [r \in DOMAIN bindings |->
                        bind(bindings[r], Binding(nextBinding, e, g, h))]
    /\ nextBinding' = nextBinding + 1
    /\ returned' = <<>>
    /\ UNCHANGED <<device, gestures, contacts, region, inputs, event,
                   prevented, queue, pc, selected, idx, hookCalls, handlerCalls,
                   clock, nextRef, unit>>

\* The application calls region.bind(element, gesture, handler).
CallBind ==
    /\ Idle
    /\ nextBinding <= MaxBinds
    /\ \E r \in DOMAIN region, e \in BindElements, g \in DOMAIN gestures,
          h \in Handlers :
        bindings' = [bindings EXCEPT
                        ![r] = bind(bindings[r], Binding(nextBinding, e, g, h))]
    /\ nextBinding' = nextBinding + 1
    /\ returned' = <<>>
    /\ UNCHANGED <<device, gestures, contacts, region, inputs, event,
                   prevented, queue, pc, selected, idx, hookCalls, handlerCalls,
                   clock, nextRef, unit>>

\* The application calls region.unbind(element) or region.unbind(element, g).
CallUnbind ==
    /\ Idle
    /\ \E r \in DOMAIN region, e \in BindElements,
          g \in DOMAIN gestures \cup {"undefined"} :
        LET res == unbind(bindings[r], e, g) IN
        /\ bindings' = [bindings EXCEPT ![r] = res.bindings]
        /\ returned' = res.unbound
    /\ UNCHANGED <<device, gestures, contacts, region, inputs, event,
                   prevented, queue, pc, selected, idx, hookCalls, handlerCalls,
                   clock, nextRef, nextBinding, unit>>

(* ------------------------------ specification -------------------------- *)

\* One Region on the document, constructed with the default arguments.
Init ==
    /\ device \in Devices
    /\ gestures = MainGestures
    /\ contacts = {}
    /\ region = [r \in {"r1"} |-> Region("document", FALSE, TRUE, hasTouchOrMouse(device))]
    /\ bindings = [r \in {"r1"} |-> <<>>]
    /\ inputs = [r \in {"r1"} |-> <<>>]
    /\ event = NoEvent
    /\ prevented = FALSE
    /\ queue = <<>>
    /\ pc = "idle"
    /\ selected = <<>>
    /\ idx = 1
    /\ hookCalls = <<>>
    /\ handlerCalls = <<>>
    /\ clock = 0
    /\ nextRef = 1
    /\ nextBinding = 1
    /\ returned = <<>>
    /\ unit = NoCall

Next ==
    \/ HostDispatch
    \/ ArbitrateUpdate
    \/ ArbitrateSelect
    \/ ArbitrateEvaluate
    \/ ArbitrateClear
    \/ CallBind
    \/ CallUnbind

Spec == Init /\ [][Next]_vars

(* ------------------------------ two Regions ---------------------------- *)

\* A second Region, constructed on B next to the one on the document, in
\* a window that has neither TouchEvent nor MouseEvent; a pointer event
\* aimed at B reaches the listeners of both, r1's first.
InitTwo ==
    /\ device = "pointer"
    /\ gestures = MainGestures
    /\ contacts = {}
    /\ region = [r \in {"r1", "r2"} |->
                    Region(IF r = "r1" THEN "document" ELSE "B", FALSE, TRUE,
                           hasTouchOrMouse(device))]
    /\ bindings = [r \in {"r1", "r2"} |-> <<>>]
    /\ inputs = [r \in {"r1", "r2"} |-> <<>>]
    /\ event = NoEvent
    /\ prevented = FALSE
    /\ queue = <<>>
    /\ pc = "idle"
    /\ selected = <<>>
    /\ idx = 1
    /\ hookCalls = <<>>
    /\ handlerCalls = <<>>
    /\ clock = 0
    /\ nextRef = 1
    /\ nextBinding = 1
    /\ returned = <<>>
    /\ unit = NoCall

SpecTwo == InitTwo /\ [][Next]_vars

(* ------------------------------ a host that breaks the contract -------- *)

\* Touch events in which one touch has no usable identifier (NaN), next to
\* a touch of a contact that may start, or move or end.
MalformedTouchEvents(down) ==
    LET Lists(id, p) == {<<Touch(id, p), Touch(NaN, p)>>,
                         <<Touch(NaN, p), Touch(id, p)>>}
    IN UNION {{TouchEvent("touchstart", t, l) : l \in Lists(id, ClientPoint[t])} :
                <<t, id>> \in Targets \X (TouchIds \ down)}
       \cup
       UNION {{TouchEvent(ty, t, l) : l \in Lists(id, ClientPoint[t])} :
                <<ty, t, id>> \in {"touchmove", "touchend"} \X Targets
                                   \X (TouchIds \cap down)}

\* The host emits a touch event, well-formed or not.
HostDispatchAny ==
    /\ Idle
    /\ clock < MaxEvents
    /\ \E ev \in HostTouchEvents(contacts) \cup MalformedTouchEvents(contacts) :
        /\ event' = ev
        /\ contacts' = ContactsAfter(contacts, ev) \ {NaN}
        /\ queue' = Listening(region, ev)
    /\ prevented' = FALSE
    /\ clock' = clock + 1
    /\ pc' = IF queue' = <<>> THEN "idle" ELSE "update"
    /\ returned' = <<>>
    /\ UNCHANGED <<device, gestures, region, bindings, inputs, selected,
                   idx, hookCalls, handlerCalls, nextRef, nextBinding, unit>>

\* arbitrate, first step, for an event that new PointerData does not
\* throw for.
ArbitrateUpdateCompletes ==
    /\ ~updateAllInputsThrows(event)
    /\ ArbitrateUpdate

\* Mutant: the error is caught and the pass goes on.
ArbitrateUpdateSwallows ==
    /\ pc = "update"
    /\ updateAllInputsThrows(event)
    /\ LET r == Head(queue)
           res == updateAllInputsUntilThrow(inputs[r], event, nextRef, clock)
       IN /\ prevented' = (prevented \/ region[r].preventDefault)
          /\ inputs' = [inputs EXCEPT ![r] = res.reg]
          /\ nextRef' = nextRef + res.built
    /\ pc' = "select"
    /\ UNCHANGED <<device, gestures, contacts, region, bindings, event,
                   queue, selected, idx, hookCalls, handlerCalls, clock,
                   nextBinding, returned, unit>>

\* arbitrate, first step, when new PointerData throws inside
\* state.updateAllInputs: arbitrate has no try, the TypeError leaves it.
ArbitrateUpdateThrows ==
    /\ pc = "update"
    /\ updateAllInputsThrows(event)
    /\ LET r == Head(queue)
           res == updateAllInputsUntilThrow(inputs[r], event, nextRef, clock)
       IN /\ prevented' = (prevented \/ region[r].preventDefault)
          /\ inputs' = [inputs EXCEPT ![r] = res.reg]
          /\ nextRef' = nextRef + res.built
    /\ pc' = "threw"
    /\ UNCHANGED <<device, gestures, contacts, region, bindings, event,
                   queue, selected, idx, hookCalls, handlerCalls, clock,
                   nextBinding, returned, unit>>

\* The host reports the uncaught error of the listener and goes on with
\* the next listener, if any.
HostReportsError ==
    /\ pc = "threw"
    /\ queue' = Tail(queue)
    /\ pc' = IF queue' = <<>> THEN "idle" ELSE "update"
    /\ UNCHANGED <<device, gestures, contacts, region, bindings, inputs, event,
                   prevented, selected, idx, hookCalls, handlerCalls, clock,
                   nextRef, nextBinding, returned, unit>>

\* One Region on the document of a touch device.
InitAny ==
    /\ device = "touch"
    /\ gestures = MainGestures
    /\ contacts = {}
    /\ region = [r \in {"r1"} |-> Region("document", FALSE, TRUE, TRUE)]
    /\ bindings = [r \in {"r1"} |-> <<>>]
    /\ inputs = [r \in {"r1"} |-> <<>>]
    /\ event = NoEvent
    /\ prevented = FALSE
    /\ queue = <<>>
    /\ pc = "idle"
    /\ selected = <<>>
    /\ idx = 1
    /\ hookCalls = <<>>
    /\ handlerCalls = <<>>
    /\ clock = 0
    /\ nextRef = 1
    /\ nextBinding = 1
    /\ returned = <<>>
    /\ unit = NoCall

NextAny ==
    \/ HostDispatchAny
    \/ ArbitrateUpdateCompletes
    \/ ArbitrateUpdateThrows
    \/ HostReportsError
    \/ ArbitrateSelect
    \/ ArbitrateEvaluate
    \/ ArbitrateClear
    \/ CallBind

SpecAny == InitAny /\ [][NextAny]_vars

(* ------------------------------ hooks that throw ----------------------- *)

\* A gesture whose end hook throws an error instead of returning.
ThrowingGestures ==
    [Tap |-> [start |-> "{}", move |-> "null", end |-> "throws"]]

\* The hook that the next iteration of the forEach calls throws.
NextHookThrows ==
    /\ pc = "dispatch"
    /\ idx <= Len(selected)
    /\ GestureHook(gestures, selected[idx].gesture, PHASE(event.type)) = "throws"

\* arbitrate, third step, for a hook that returns.
ArbitrateEvaluateReturns ==
    /\ ~NextHookThrows
    /\ ArbitrateEvaluate

\* arbitrate, third step, for a hook that throws: neither evaluateHook nor
\* the forEach nor arbitrate has a try, so the error leaves the listener;
\* the remaining bindings and clearEndedInputs are not reached.
ArbitrateEvaluateThrows ==
    /\ NextHookThrows
    /\ LET r == Head(queue)
           b == selected[idx]
           hook == PHASE(event.type)
       IN hookCalls' = hookCalls \o HookInvocations(gestures, b, hook, r)
    /\ pc' = "threw"
    /\ UNCHANGED <<device, gestures, contacts, region, bindings, inputs, event,
                   prevented, queue, selected, idx, handlerCalls, clock, nextRef,
                   nextBinding, returned, unit>>

\* The host reports the uncaught error of a hook; the next pass starts
\* with empty logs.
HostReportsHookError ==
    /\ pc = "threw"
    /\ queue' = Tail(queue)
    /\ pc' = IF queue' = <<>> THEN "idle" ELSE "update"
    /\ selected' = <<>>
    /\ idx' = 1
    /\ hookCalls' = <<>>
    /\ handlerCalls' = <<>>
    /\ UNCHANGED <<device, gestures, contacts, region, bindings, inputs, event,
                   prevented, clock, nextRef, nextBinding, returned, unit>>

\* One Region on the document of a touch device; the application binds
\* the gesture whose end hook throws.
InitThrow ==
    /\ device = "touch"
    /\ gestures = ThrowingGestures
    /\ contacts = {}
    /\ region = [r \in {"r1"} |-> Region("document", FALSE, TRUE, TRUE)]
    /\ bindings = [r \in {"r1"} |-> <<>>]
    /\ inputs = [r \in {"r1"} |-> <<>>]
    /\ event = NoEvent
    /\ prevented = FALSE
    /\ queue = <<>>
    /\ pc = "idle"
    /\ selected = <<>>
    /\ idx = 1
    /\ hookCalls = <<>>
    /\ handlerCalls = <<>>
    /\ clock = 0
    /\ nextRef = 1
    /\ nextBinding = 1
    /\ returned = <<>>
    /\ unit = NoCall

NextThrow ==
    \/ HostDispatch
    \/ ArbitrateUpdate
    \/ ArbitrateSelect
    \/ ArbitrateEvaluateReturns
    \/ ArbitrateEvaluateThrows
    \/ HostReportsHookError
    \/ ArbitrateClear
    \/ CallBind

SpecThrow == InitThrow /\ [][NextThrow]_vars

(* ------------------------------ hooks that bind and unbind ------------- *)

\* Mutant: the forEach walks this.bindings itself, so a binding pushed by
\* a hook is part of the list being walked.
HookCallsBindSelected ==
    /\ pc = "dispatch"
    /\ hookCalls # <<>>
    /\ nextBinding <= MaxBinds
    /\ \E e \in BindElements, g \in DOMAIN gestures, h \in Handlers :
        LET r == Head(queue)
            b == Binding(nextBinding, e, g, h)
        IN /\ bindings' = [bindings EXCEPT ![r] = bind(bindings[r], b)]
           /\ selected' = bind(selected, b)
    /\ nextBinding' = nextBinding + 1
    /\ UNCHANGED <<device, gestures, contacts, region, inputs, event,
                   prevented, queue, pc, idx, hookCalls, handlerCalls,
                   clock, nextRef, returned, unit>>

\* The hook or handler that arbitrate invoked last calls region.bind
\* before it returns: the Binding is pushed onto this.bindings, not onto
\* the array that filter() made for the forEach.
HookCallsBind ==
    /\ pc = "dispatch"
    /\ hookCalls # <<>>
    /\ nextBinding <= MaxBinds
    /\ \E e \in BindElements, g \in DOMAIN gestures, h \in Handlers :
        LET r == Head(queue) IN
        bindings' = [bindings EXCEPT
                        ![r] = bind(bindings[r], Binding(nextBinding, e, g, h))]
    /\ nextBinding' = nextBinding + 1
    /\ UNCHANGED <<device, gestures, contacts, region, inputs, event,
                   prevented, queue, pc, selected, idx, hookCalls, handlerCalls,
                   clock, nextRef, returned, unit>>

\* The hook or handler that arbitrate invoked last calls region.unbind
\* before it returns: the Bindings are spliced out of this.bindings.
HookCallsUnbind ==
    /\ pc = "dispatch"
    /\ hookCalls # <<>>
    /\ \E e \in BindElements, g \in DOMAIN gestures \cup {"undefined"} :
        LET r == Head(queue)
            res == unbind(bindings[r], e, g)
        IN /\ res.unbound # <<>>
           /\ bindings' = [bindings EXCEPT ![r] = res.bindings]
           /\ returned' = res.unbound
    /\ UNCHANGED <<device, gestures, contacts, region, inputs, event,
                   prevented, queue, pc, selected, idx, hookCalls, handlerCalls,
                   clock, nextRef, nextBinding, unit>>

\* One Region on the document of a touch device.
InitReentrant ==
    /\ device = "touch"
    /\ gestures = MainGestures
    /\ contacts = {}
    /\ region = [r \in {"r1"} |-> Region("document", FALSE, TRUE, TRUE)]
    /\ bindings = [r \in {"r1"} |-> <<>>]
    /\ inputs = [r \in {"r1"} |-> <<>>]
    /\ event = NoEvent
    /\ prevented = FALSE
    /\ queue = <<>>
    /\ pc = "idle"
    /\ selected = <<>>
    /\ idx = 1
    /\ hookCalls = <<>>
    /\ handlerCalls = <<>>
    /\ clock = 0
    /\ nextRef = 1
    /\ nextBinding = 1
    /\ returned = <<>>
    /\ unit = NoCall

NextReentrant ==
    \/ HostDispatch
    \/ ArbitrateUpdate
    \/ ArbitrateSelect
    \/ ArbitrateEvaluate
    \/ ArbitrateClear
    \/ CallBind
    \/ HookCallsBind
    \/ HookCallsUnbind

SpecReentrant == InitReentrant /\ [][NextReentrant]_vars

(* ------------------------------ Binding, called directly --------------- *)

\* Every gesture object over the four hooks: each hook is missing or
\* returns one of the values.
AnyGesture == [Phases -> HookResults]

\* One binding of a gesture G on A, as in test/Binding.test.js.
InitBinding ==
    /\ device = "touch"
    /\ gestures \in [{"G"} -> AnyGesture]
    /\ contacts = {}
    /\ region = [r \in {"r1"} |-> Region("document", FALSE, TRUE, TRUE)]
    /\ bindings = [r \in {"r1"} |-> <<Binding(1, "A", "G", "h")>>]
    /\ inputs = [r \in {"r1"} |-> <<>>]
    /\ event = NoEvent
    /\ prevented = FALSE
    /\ queue = <<>>
    /\ pc = "unit"
    /\ selected = <<>>
    /\ idx = 1
    /\ hookCalls = <<>>
    /\ handlerCalls = <<>>
    /\ clock = 0
    /\ nextRef = 1
    /\ nextBinding = 2
    /\ returned = <<>>
    /\ unit = NoCall

\* binding.evaluateHook(hook, state) on the one binding, state being the
\* registry of r1.
CallEvaluateHook ==
    /\ pc = "unit"
    /\ unit = NoCall
    /\ \E hook \in Phases :
        LET calls == evaluateHook(gestures, bindings["r1"][1], hook, "r1") IN
        /\ hookCalls' = calls.hookCalls
        /\ handlerCalls' = calls.handlerCalls
        /\ unit' = [op |-> "evaluateHook", args |-> <<hook, "r1">>, before |-> <<>>]
    /\ UNCHANGED <<device, gestures, contacts, region, bindings, inputs, event,
                   prevented, queue, pc, selected, idx, clock, nextRef,
                   nextBinding, returned>>

SpecBinding == InitBinding /\ [][CallEvaluateHook]_vars

(* ------------------------------ unbind, called directly ---------------- *)

UnitGestures ==
    [Tap |-> [start |-> "null", move |-> "null", end |-> "{x:91}"],
     Pan |-> [start |-> "{}", move |-> "{x:91}", end |-> "null"]]

\* Every binding list of up to MaxList bindings of Tap and Pan on A and B,
\* the k-th registered being the k-th Binding object.
BindingLists ==
    LET Kinds == BindElements \X (DOMAIN UnitGestures) \X Handlers
        Shapes == UNION {[1..n -> Kinds] : n \in 0..MaxList}
    IN {[k \in DOMAIN f |-> Binding(k, f[k][1], f[k][2], f[k][3])] : f \in Shapes}

InitUnbind ==
    /\ device = "touch"
    /\ gestures = UnitGestures
    /\ contacts = {}
    /\ region = [r \in {"r1"} |-> Region("document", FALSE, TRUE, TRUE)]
    /\ \E list \in BindingLists :
        /\ bindings = [r \in {"r1"} |-> list]
        /\ nextBinding = Len(list) + 1
    /\ inputs = [r \in {"r1"} |-> <<>>]
    /\ event = NoEvent
    /\ prevented = FALSE
    /\ queue = <<>>
    /\ pc = "unit"
    /\ selected = <<>>
    /\ idx = 1
    /\ hookCalls = <<>>
    /\ handlerCalls = <<>>
    /\ clock = 0
    /\ nextRef = 1
    /\ returned = <<>>
    /\ unit = NoCall

\* region.unbind(element) or region.unbind(element, gesture), once.
CallUnbindOnce ==
    /\ pc = "unit"
    /\ unit = NoCall
    /\ \E e \in BindElements, g \in DOMAIN gestures \cup {"undefined"} :
        LET res == unbind(bindings["r1"], e, g) IN
        /\ bindings' = [bindings EXCEPT !["r1"] = res.bindings]
        /\ returned' = res.unbound
        /\ unit' = [op |-> "unbind", args |-> <<e, g>>, before |-> bindings["r1"]]
    /\ UNCHANGED <<device, gestures, contacts, region, inputs, event, prevented,
                   queue, pc, selected, idx, hookCalls, handlerCalls, clock,
                   nextRef, nextBinding>>

SpecUnbind == InitUnbind /\ [][CallUnbindOnce]_vars

(* ------------------------------ Input, called directly ----------------- *)

\* Raw events that carry the identifier: mouse events, and touch events
\* in which its touch comes first or second.
EventsCarrying(id) ==
    {SingleEvent(ty, t, id, ClientPoint[t]) :
        <<ty, t>> \in Range(MOUSE_EVENTS) \X Targets}
    \cup
    {TouchEvent(ty, t, <<Touch(id, ClientPoint[t])>>) :
        <<ty, t>> \in Range(TOUCH_EVENTS) \X Targets}
    \cup
    {TouchEvent(ty, t, <<Touch(id + 1, ClientPoint["A"]), Touch(id, ClientPoint[t])>>) :
        <<ty, t>> \in Range(TOUCH_EVENTS) \X Targets}

\* new Input(event, 1) for a raw event, as in test/Input.spec.js; the
\* constructor builds PointerData object 1 at time 1.
InitInput ==
    /\ device = "touch"
    /\ gestures = MainGestures
    /\ contacts = {}
    /\ region = [r \in {"r1"} |-> Region("document", FALSE, TRUE, TRUE)]
    /\ bindings = [r \in {"r1"} |-> <<>>]
    /\ event \in EventsCarrying(1)
    /\ inputs = [r \in {"r1"} |-> <<Input(event, 1, 1, 1)>>]
    /\ prevented = FALSE
    /\ queue = <<>>
    /\ pc = "unit"
    /\ selected = <<>>
    /\ idx = 1
    /\ hookCalls = <<>>
    /\ handlerCalls = <<>>
    /\ clock = 1
    /\ nextRef = 2
    /\ nextBinding = 1
    /\ returned = <<>>
    /\ unit = [op |-> "Input", args |-> <<>>, before |-> <<>>]

\* input.update(event), at a later time.
CallUpdate ==
    /\ pc = "unit"
    /\ unit.op \in {"Input", "update"}
    /\ clock <= MaxUpdates
    /\ \E ev \in EventsCarrying(1) :
        /\ event' = ev
        /\ inputs' = [inputs EXCEPT
                        !["r1"] = <<update(inputs["r1"][1], ev, nextRef, clock + 1)>>]
    /\ clock' = clock + 1
    /\ nextRef' = nextRef + 1
    /\ unit' = [op |-> "update", args |-> <<>>, before |-> <<>>]
    /\ UNCHANGED <<device, gestures, contacts, region, bindings, prevented,
                   queue, pc, selected, idx, hookCalls, handlerCalls,
                   nextBinding, returned>>

SpecInput == InitInput /\ [][CallUpdate]_vars

(* ------------------------------ Input.update that throws --------------- *)

\* Touch events whose payload has no touch with the identifier.
EventsLacking(id) ==
    {TouchEvent(ty, t, <<Touch(id + 1, ClientPoint[t])>>) :
        <<ty, t>> \in Range(TOUCH_EVENTS) \X Targets}

\* input.update(event) with an event that lacks the input's identifier:
\* previous is assigned, then new PointerData throws and the error leaves
\* update.  unit.before holds the Input as it was when update was called.
CallUpdateThrows ==
    /\ pc = "unit"
    /\ unit.op \in {"Input", "update"}
    /\ \E ev \in EventsLacking(1) :
        /\ PointerDataThrows(ev, inputs["r1"][1].identifier)
        /\ event' = ev
        /\ unit' = [op |-> "update", args |-> <<ev>>, before |-> inputs["r1"]]
    /\ inputs' = [inputs EXCEPT !["r1"] = updateInputThrowing(inputs["r1"], 1)]
    /\ pc' = "threw"
    /\ UNCHANGED <<device, gestures, contacts, region, bindings, prevented,
                   queue, selected, idx, hookCalls, handlerCalls, clock,
                   nextRef, nextBinding, returned>>

NextUpdate ==
    \/ CallUpdate
    \/ CallUpdateThrows

SpecUpdate == InitInput /\ [][NextUpdate]_vars

(* ------------------------------ PointerData, constructed directly ------ *)

\* Lists of touches a payload may hold: none, one, or both in either order.
AnyIdLists == {<<>>, <<1>>, <<2>>, <<1, 2>>, <<2, 1>>}

\* Argument lists of the constructor, as in the tests of PointerData: no
\* argument at all, a mouse or pointer event, or a touch event, with an
\* identifier that the payload may or may not hold.
ConstructorArgs ==
    {<<>>}
    \cup
    {<<SingleEvent(ty, t, 1, ClientPoint[t]), id>> :
        <<ty, t, id>> \in Range(MOUSE_EVENTS \o POINTER_EVENTS) \X Targets \X {1, 2, 3}}
    \cup
    {<<TouchEvent(ty, t, TouchList(ids, ClientPoint[t])), id>> :
        <<ty, t, ids, id>> \in Range(TOUCH_EVENTS) \X Targets \X AnyIdLists
                               \X {1, 2, 3}}

InitPointerData ==
    /\ device = "touch"
    /\ gestures = MainGestures
    /\ contacts = {}
    /\ region = [r \in {"r1"} |-> Region("document", FALSE, TRUE, TRUE)]
    /\ bindings = [r \in {"r1"} |-> <<>>]
    /\ inputs = [r \in {"r1"} |-> <<>>]
    /\ event = NoEvent
    /\ prevented = FALSE
    /\ queue = <<>>
    /\ pc = "unit"
    /\ selected = <<>>
    /\ idx = 1
    /\ hookCalls = <<>>
    /\ handlerCalls = <<>>
    /\ clock = 1
    /\ nextRef = 1
    /\ nextBinding = 1
    /\ returned = <<>>
    /\ unit = NoCall

\* new PointerData(...args), once: pc tells whether it threw, returned
\* holds the object when it did not.
CallNewPointerData ==
    /\ pc = "unit"
    /\ unit = NoCall
    /\ \E args \in ConstructorArgs :
        LET res == NewPointerData(args, nextRef, clock) IN
        /\ event' = IF Len(args) = 0 THEN event ELSE args[1]
        /\ returned' = res.made
        /\ pc' = IF res.threw THEN "threw" ELSE "unit"
        /\ nextRef' = nextRef + Len(res.made)
        /\ unit' = [op |-> "PointerData", args |-> args, before |-> <<>>]
    /\ UNCHANGED <<device, gestures, contacts, region, bindings, inputs,
                   prevented, queue, selected, idx, hookCalls, handlerCalls,
                   clock, nextBinding>>

SpecPointerData == InitPointerData /\ [][CallNewPointerData]_vars


(* ------------------------------ PointerData.point ---------------------- *)

\* Positions an event object can report.
TestPoints == {[x |-> 1, y |-> 3], [x |-> 2, y |-> 4], [x |-> 89, y |-> 53]}

\* changedTouches of one or two touches with different identifiers, in any
\* order, each touch at a position of its own.
TouchLists ==
    {<<Touch(a, p)>> : <<a, p>> \in {1, 2, 3} \X TestPoints}
    \cup
    {<<Touch(l[1], l[2]), Touch(l[3], l[4])>> :
        l \in {m \in {1, 2, 3} \X TestPoints \X {1, 2, 3} \X TestPoints :
                m[1] # m[3]}}

\* Argument lists of the constructor: a mouse or pointer event at some
\* position, or a touch event with a payload of TouchLists, and an
\* identifier.
PositionArgs ==
    {<<SingleEvent(ty, t, 1, p), id>> :
        <<ty, t, p, id>> \in {"mousemove", "pointerdown"} \X Targets
                              \X TestPoints \X {1, 2}}
    \cup
    {<<TouchEvent(ty, t, touches), id>> :
        <<ty, t, touches, id>> \in {"touchstart", "touchmove"} \X Targets
                                    \X TouchLists \X {1, 2, 3}}

\* new PointerData(event, identifier), once, on one of PositionArgs.
CallNewPointerDataAt ==
    /\ pc = "unit"
    /\ unit = NoCall
    /\ \E args \in PositionArgs :
        LET res == NewPointerData(args, nextRef, clock) IN
        /\ event' = args[1]
        /\ returned' = res.made
        /\ pc' = IF res.threw THEN "threw" ELSE "unit"
        /\ nextRef' = nextRef + Len(res.made)
        /\ unit' = [op |-> "PointerData", args |-> args, before |-> <<>>]
    /\ UNCHANGED <<device, gestures, contacts, region, bindings, inputs,
                   prevented, queue, selected, idx, hookCalls, handlerCalls,
                   clock, nextBinding>>

SpecPoint == InitPointerData /\ [][CallNewPointerDataAt]_vars

(* ------------------------------ Input.progress, called directly -------- *)

\* The ids gestures ask progress for: 'tap' as in test/Input.spec.js, a
\* second gesture, and a string that names a property of every object.
GestureKeys == {"tap", "pan", "constructor"}

\* Touch events that move or end the contact of the identifier.
TouchUpdates(id) ==
    {TouchEvent(ty, t, <<Touch(id, ClientPoint[t])>>) :
        <<ty, t>> \in {"touchmove", "touchend"} \X Targets}

\* Two Inputs, built for the two touches of one touchstart: PointerData
\* objects 1 and 2, at time 1.
InitProgress ==
    /\ device = "touch"
    /\ gestures = UnitGestures
    /\ contacts = {1, 2}
    /\ region = [r \in {"r1"} |-> Region("document", FALSE, TRUE, TRUE)]
    /\ bindings = [r \in {"r1"} |-> <<>>]
    /\ event \in {TouchEvent("touchstart", t, TouchList(<<1, 2>>, ClientPoint[t])) :
                    t \in Targets}
    /\ inputs = [r \in {"r1"} |-> <<Input(event, 1, 1, 1), Input(event, 2, 2, 1)>>]
    /\ prevented = FALSE
    /\ queue = <<>>
    /\ pc = "unit"
    /\ selected = <<>>
    /\ idx = 1
    /\ hookCalls = <<>>
    /\ handlerCalls = <<>>
    /\ clock = 1
    /\ nextRef = 3
    /\ nextBinding = 1
    /\ returned = <<>>
    /\ unit = [op |-> "Input", args |-> <<>>, before |-> <<>>]

\* inputs[i].update(event) with an event of its contact.
CallUpdateOf ==
    /\ pc = "unit"
    /\ clock <= MaxCalls
    /\ \E i \in DOMAIN inputs["r1"] :
        \E ev \in TouchUpdates(inputs["r1"][i].identifier) :
            /\ event' = ev
            /\ inputs' = [inputs EXCEPT
                            !["r1"][i] = update(inputs["r1"][i], ev, nextRef, clock + 1)]
            /\ unit' = [op |-> "update", args |-> <<i>>, before |-> inputs["r1"]]
    /\ clock' = clock + 1
    /\ nextRef' = nextRef + 1
    /\ returned' = <<>>
    /\ UNCHANGED <<device, gestures, contacts, region, bindings, prevented,
                   queue, pc, selected, idx, hookCalls, handlerCalls,
                   nextBinding>>

\* inputs[i].getProgressOfGesture(id); returned holds the object it gave.
CallGetProgressOfGesture ==
    /\ pc = "unit"
    /\ clock <= MaxCalls
    /\ \E i \in DOMAIN inputs["r1"], id \in GestureKeys :
        LET res == getProgressOfGesture(inputs["r1"][i], id, nextRef) IN
        /\ inputs' = [inputs EXCEPT !["r1"][i] = res.input]
        /\ returned' = <<res.value>>
        /\ nextRef' = IF res.value.ref = nextRef THEN nextRef + 1 ELSE nextRef
        /\ unit' = [op |-> "getProgressOfGesture", args |-> <<i, id>>,
                    before |-> inputs["r1"]]
    /\ clock' = clock + 1
    /\ UNCHANGED <<device, gestures, contacts, region, bindings, event,
                   prevented, queue, pc, selected, idx, hookCalls, handlerCalls,
                   nextBinding>>

\* inputs[i].getProgressOfGesture(id).foo = 8, as a gesture's hook does
\* it: the property lands on the object returned.  A store on the shared
\* function Object is outside the objects the model holds.
CallStoreProgress ==
    /\ pc = "unit"
    /\ clock <= MaxCalls
    /\ \E i \in DOMAIN inputs["r1"], id \in GestureKeys :
        LET res == getProgressOfGesture(inputs["r1"][i], id, nextRef)
            stored == [res.value EXCEPT !.data = @ \cup {"foo"}]
        IN /\ id \in DOMAIN res.input.progress
           /\ inputs' = [inputs EXCEPT
                           !["r1"][i] = [res.input EXCEPT !.progress[id] = stored]]
           /\ returned' = <<stored>>
           /\ nextRef' = IF res.value.ref = nextRef THEN nextRef + 1 ELSE nextRef
           /\ unit' = [op |-> "store", args |-> <<i, id>>, before |-> inputs["r1"]]
    /\ clock' = clock + 1
    /\ UNCHANGED <<device, gestures, contacts, region, bindings, event,
                   prevented, queue, pc, selected, idx, hookCalls, handlerCalls,
                   nextBinding>>

SpecProgress ==
    InitProgress /\ [][CallUpdateOf \/ CallGetProgressOfGesture
                        \/ CallStoreProgress]_vars

(* ------------------------------ claims --------------------------------- *)

\* The elements an event aimed at target passes through: the target, the
\* elements that contain it, the document and the window.
Contains(element, target) ==
    \/ element \in {"document", "window", target}
    \/ element = "A" /\ target = "B"

\* The input began inside the element: the element lies on the path of
\* the event that constructed the input.
BeganInside(input, element) ==
    Contains(element, input.initial.originalEvent.target)

Refs(list) == [k \in DOMAIN list |-> list[k].ref]

\* C1: in every arbitrate pass the bindings whose hook is evaluated are
\* exactly the registered bindings whose element lies on the start path of
\* some input of the registry, each once and in the order of the list;
\* where the inputs are now plays no part.
C1_SelectedByStartPath ==
    pc = "dispatch" =>
        LET r == Head(queue)
            Applies(b) == \E i \in DOMAIN inputs[r] :
                              BeganInside(inputs[r][i], b.element)
        IN /\ selected = SelectSeq(bindings[r], Applies)
           /\ Len(hookCalls) = idx - 1
           /\ \A k \in DOMAIN hookCalls : hookCalls[k].binding = selected[k].ref

\* An input that began on A is now over B, and the binding of B is
\* registered but not selected.
C1_Witness ==
    /\ pc = "dispatch"
    /\ idx > Len(selected)
    /\ \E b \in Range(bindings[Head(queue)]) :
        /\ b.element = "B"
        /\ b.ref \notin Range(Refs(selected))
    /\ \E b \in Range(selected) : b.element = "A"
    /\ \E i \in DOMAIN inputs[Head(queue)] :
        LET input == inputs[Head(queue)][i] IN
        /\ input.initial.originalEvent.target = "A"
        /\ input.current.originalEvent.target = "B"
        /\ event.target = "B"

\* The inputs of the registry that the raw event carries.
Carried(reg, ev) ==
    {i \in DOMAIN reg : reg[i].identifier \in Range(EventIdentifiers(ev))}

BindingOf(r, ref) == CHOOSE b \in Range(bindings[r]) : b.ref = ref

\* C2 as stated: a binding whose element is not on the start path of input
\* i gets no hook call for a raw event of i, whatever other inputs are
\* active.
C2_NoHookForOutsideInput ==
    pc = "dispatch" =>
        LET r == Head(queue) IN
        \A c \in Range(hookCalls) : \A i \in Carried(inputs[r], event) :
            BeganInside(inputs[r][i], BindingOf(r, c.binding).element)

\* C2 amended: a binding whose element is not on the start path of input i
\* gets a hook call for a raw event of i only when another input of the
\* registry began inside the element; alone, i never reaches it, even
\* when it moves over the element.
C2_NoHookUnlessAnotherInputBeganInside ==
    pc = "dispatch" =>
        LET r == Head(queue) IN
        \A c \in Range(hookCalls) : \A i \in Carried(inputs[r], event) :
            \/ BeganInside(inputs[r][i], BindingOf(r, c.binding).element)
            \/ \E j \in DOMAIN inputs[r] :
                /\ j # i
                /\ BeganInside(inputs[r][j], BindingOf(r, c.binding).element)

\* The one input of the registry began on A and has moved over B; the pass
\* for its move is dispatched and the binding of B got no hook call.
C2_Witness ==
    /\ pc = "dispatch"
    /\ idx > Len(selected)
    /\ PHASE(event.type) = "move"
    /\ event.target = "B"
    /\ Len(inputs[Head(queue)]) = 1
    /\ inputs[Head(queue)][1].initial.originalEvent.target = "A"
    /\ Carried(inputs[Head(queue)], event) = {1}
    /\ \E b \in Range(bindings[Head(queue)]) :
        /\ b.element = "B"
        /\ \A c \in Range(hookCalls) : c.binding # b.ref

\* The registry holds, for every identifier of the raw event, an input
\* whose current snapshot was built from that event.
UpdatedFor(reg, ev) ==
    \A id \in Range(EventIdentifiers(ev)) :
        \E i \in DOMAIN reg :
            /\ reg[i].identifier = id
            /\ reg[i].current.originalEvent = ev
            /\ reg[i].current.time = clock

Terminal(input) == phase(input) \in {"end", "cancel"}

\* C3: a pass updates the registry, then selects, then calls the hooks,
\* then purges: nothing is selected or called before the update, every
\* hook runs on a registry updated for the current event, and during the
\* hooks of an end event the ending inputs are still registered, in phase
\* "end".
C3_UpdateSelectDispatchPurge ==
    /\ pc = "update" => selected = <<>> /\ hookCalls = <<>> /\ handlerCalls = <<>>
    /\ pc = "select" =>
        /\ UpdatedFor(inputs[Head(queue)], event)
        /\ selected = <<>> /\ hookCalls = <<>> /\ handlerCalls = <<>>
    /\ pc = "dispatch" =>
        /\ UpdatedFor(inputs[Head(queue)], event)
        /\ PHASE(event.type) = "end" =>
            \A id \in Range(EventIdentifiers(event)) :
                \E i \in DOMAIN inputs[Head(queue)] :
                    /\ inputs[Head(queue)][i].identifier = id
                    /\ phase(inputs[Head(queue)][i]) = "end"
    /\ pc = "idle" => selected = <<>> /\ hookCalls = <<>> /\ handlerCalls = <<>>

\* The end hook of a binding has run and the ending input is registered.
C3_Witness ==
    /\ pc = "dispatch"
    /\ PHASE(event.type) = "end"
    /\ \E c \in Range(hookCalls) : c.hook = "end"
    /\ \E i \in Carried(inputs[Head(queue)], event) :
        /\ phase(inputs[Head(queue)][i]) = "end"
        /\ inputs[Head(queue)][i].initial.ref # inputs[Head(queue)][i].current.ref

\* C4: outside an arbitrate pass no registered input is in a terminal
\* phase, and the inputs that the last end event carried are gone from
\* the registry of every region that heard it.
C4_NoEndedInputOutsidePass ==
    pc = "idle" =>
        /\ \A r \in DOMAIN inputs : \A i \in DOMAIN inputs[r] :
            ~Terminal(inputs[r][i])
        /\ PHASE(event.type) = "end" =>
            \A r \in Range(Listening(region, event)) :
                Carried(inputs[r], event) = {}

\* An end event has been processed: its input is gone, another remains.
C4_Witness ==
    /\ pc = "idle"
    /\ PHASE(event.type) = "end"
    /\ Listening(region, event) = <<"r1">>
    /\ Len(inputs["r1"]) = 1
    /\ Carried(inputs["r1"], event) = {}
    /\ nextRef > 2

\* C5 as stated: an input that the host cancelled is purged like one that
\* ended, so once the cancel event has been handled no region holds it.
C5_CancelledInputIsPurged ==
    (pc = "idle" /\ PHASE(event.type) = "cancel") =>
        \A r \in DOMAIN inputs : Carried(inputs[r], event) = {}

\* What the hook named by the direct evaluateHook call returns.
Returned == gestures["G"][unit.args[1]]

\* C6: evaluateHook does not call the handler when the hook returns null
\* or nothing, and calls it once, with the very value, when the hook
\* returns anything else, 0, false, '' and {} included.
C6_HandlerCalledIffNonNull ==
    unit.op = "evaluateHook" =>
        /\ Returned \in {"null", "undefined"} => handlerCalls = <<>>
        /\ Returned \notin {"null", "undefined", "absent"} =>
            handlerCalls = <<[binding |-> 1, handler |-> "h",
                              args |-> <<Returned>>]>>

\* The hook returned false and the handler was called with false.
C6_Witness ==
    /\ unit.op = "evaluateHook"
    /\ Returned = "false"
    /\ Len(handlerCalls) = 1
    /\ handlerCalls[1].args = <<"false">>

\* C7: evaluateHook calls the hook named by the phase once, with the state
\* as its one argument, and no other hook; a gesture without that hook is
\* treated as one whose hook returned null: nothing is called.
C7_NamedHookOnceWithState ==
    unit.op = "evaluateHook" =>
        /\ Returned # "absent" =>
            hookCalls = <<[binding |-> 1, hook |-> unit.args[1],
                           args |-> <<unit.args[2]>>]>>
        /\ Returned = "absent" => hookCalls = <<>> /\ handlerCalls = <<>>

\* The gesture has a start hook but no cancel hook, and cancel was asked.
C7_Witness ==
    /\ unit.op = "evaluateHook"
    /\ unit.args[1] = "cancel"
    /\ Returned = "absent"
    /\ gestures["G"]["start"] = "{x:91}"
    /\ hookCalls = <<>>

\* C8: unbind(element) removes the bindings of the element, and
\* unbind(element, g) those of the element whose gesture is g; the list
\* returned holds exactly the removed bindings, each once, and every
\* other binding stays registered, in place.
C8_UnbindRemovesExactlyTheMatches ==
    unit.op = "unbind" =>
        LET Match(b) == /\ b.element = unit.args[1]
                        /\ unit.args[2] \in {"undefined", b.gesture}
            Other(b) == ~Match(b)
        IN /\ returned = SelectSeq(unit.before, Match)
           /\ bindings["r1"] = SelectSeq(unit.before, Other)

\* Two neighbours of the list matched and were removed; the binding of
\* the same element to the other gesture stays.
C8_Witness ==
    /\ unit.op = "unbind"
    /\ unit.args = <<"A", "Tap">>
    /\ Len(unit.before) = 3
    /\ Refs(returned) = <<1, 2>>
    /\ Refs(bindings["r1"]) = <<3>>
    /\ bindings["r1"][1].element = "A"
    /\ bindings["r1"][1].gesture = "Pan"

\* Position of the Binding object in the region's list, 0 when unbound.
PositionOf(r, ref) ==
    IF \E k \in DOMAIN bindings[r] : bindings[r][k].ref = ref
    THEN CHOOSE k \in DOMAIN bindings[r] : bindings[r][k].ref = ref
    ELSE 0

\* Binding objects are numbered as they are created, so a list is in
\* registration order when its numbers ascend.
Ascending(refs) == \A k, l \in DOMAIN refs : k < l => refs[k] < refs[l]

\* The bind call put one new Binding object at the end of one region's
\* list and left the rest of the list as it was.
Appended ==
    \E r \in DOMAIN bindings :
        /\ Len(bindings'[r]) = Len(bindings[r]) + 1
        /\ SubSeq(bindings'[r], 1, Len(bindings[r])) = bindings[r]
        /\ bindings'[r][Len(bindings'[r])].ref = nextBinding
        /\ \A q \in DOMAIN bindings : q # r => bindings'[q] = bindings[q]

\* C9: bind appends a new binding whatever is registered already, every
\* list stays in registration order under bind and unbind, and the hooks
\* of a pass are called in that order.
C9_AppendAndRegistrationOrder ==
    /\ [][CallBind => Appended]_vars
    /\ [](\A r \in DOMAIN bindings : Ascending(Refs(bindings[r])))
    /\ [](pc = "dispatch" =>
            /\ Ascending([k \in DOMAIN hookCalls |-> hookCalls[k].binding])
            /\ Ascending([k \in DOMAIN hookCalls |->
                            PositionOf(Head(queue), hookCalls[k].binding)]))

\* The same element is bound twice to the same gesture and handler, and
\* both hooks have been called, the first registered first.
C9_Witness ==
    /\ pc = "dispatch"
    /\ Len(bindings[Head(queue)]) = 2
    /\ bindings[Head(queue)][1].element = bindings[Head(queue)][2].element
    /\ bindings[Head(queue)][1].gesture = bindings[Head(queue)][2].gesture
    /\ bindings[Head(queue)][1].handler = bindings[Head(queue)][2].handler
    /\ [k \in DOMAIN hookCalls |-> hookCalls[k].binding] = <<1, 2>>

\* The Input under direct test, and the number of update calls made on it.
TheInput == inputs["r1"][1]

Updates == clock - 1

\* C10: initial is the snapshot the constructor built and never changes;
\* current is the snapshot the latest update built from its event, a new
\* object; previous is what current was before the latest update, hence
\* the initial snapshot after at most one update.
C10_InitialPreviousCurrent ==
    /\ [](unit.op \in {"Input", "update"} =>
            /\ TheInput.initial.ref = 1
            /\ TheInput.initial.time = 1
            /\ TheInput.current.ref = nextRef - 1
            /\ TheInput.current.time = clock
            /\ TheInput.current.originalEvent = event
            /\ Updates = 0 => TheInput.current = TheInput.initial
            /\ Updates >= 1 => TheInput.current.ref # TheInput.initial.ref
            /\ Updates <= 1 => TheInput.previous = TheInput.initial
            /\ Updates >= 2 => TheInput.previous.ref = nextRef - 2)
    /\ [][CallUpdate =>
            /\ TheInput'.initial = TheInput.initial
            /\ TheInput'.previous = TheInput.current]_vars

\* After two updates the three snapshots are three objects.
C10_Witness ==
    /\ unit.op = "update"
    /\ Updates = 2
    /\ TheInput.initial.ref = 1
    /\ TheInput.previous.ref = 2
    /\ TheInput.current.ref = 3
    /\ TheInput.initial.point # TheInput.current.point

\* C11: the start elements of an Input are those on the path of the event
\* that constructed it, and no update (whatever the target of its event)
\* and no getProgressOfGesture call or store changes the answer of
\* wasInitiallyInside for any element.
C11_StartElementsCapturedOnce ==
    /\ [](\A i \in DOMAIN inputs["r1"] : \A e \in Elements :
            wasInitiallyInside(inputs["r1"][i], e)
                <=> Contains(e, inputs["r1"][i].initial.originalEvent.target))
    /\ [][\A i \in DOMAIN inputs["r1"] : \A e \in Elements :
            wasInitiallyInside(inputs'["r1"][i], e)
                <=> wasInitiallyInside(inputs["r1"][i], e)]_vars

\* An Input that began on A has been updated by an event aimed at B and
\* asked for the progress of a gesture: it still did not begin inside B.
C11_Witness ==
    \E i \in DOMAIN inputs["r1"] :
        LET input == inputs["r1"][i] IN
        /\ unit.op = "getProgressOfGesture"
        /\ unit.args[1] = i
        /\ input.initial.originalEvent.target = "A"
        /\ input.current.originalEvent.target = "B"
        /\ input.current.ref # input.initial.ref
        /\ DOMAIN input.progress # {}
        /\ wasInitiallyInside(input, "A")
        /\ ~wasInitiallyInside(input, "B")

\* C12 as stated: getProgressOfGesture(id) on an Input that holds no record
\* for id returns an empty record; on an Input that holds one it returns
\* that record, with what was stored in it; the record is kept by the
\* Input under id, and it is not the record of another key or of another
\* Input, whatever string id is.
C12_ProgressRecordPerInputAndKey ==
    unit.op = "getProgressOfGesture" =>
        LET i == unit.args[1]
            id == unit.args[2]
            was == unit.before[i]
            now == inputs["r1"][i]
        IN /\ id \notin DOMAIN was.progress => returned[1].data = {}
           /\ id \in DOMAIN was.progress => returned[1] = was.progress[id]
           /\ id \in DOMAIN now.progress
           /\ now.progress[id] = returned[1]
           /\ \A j \in DOMAIN inputs["r1"] : \A k \in DOMAIN inputs["r1"][j].progress :
                <<j, k>> # <<i, id>> =>
                    inputs["r1"][j].progress[k].ref # returned[1].ref
           /\ \A j \in DOMAIN inputs["r1"] : \A k \in GestureKeys :
                <<j, k>> # <<i, id>> =>
                    getProgressOfGesture(inputs["r1"][j], k, nextRef).value.ref
                        # returned[1].ref

\* The identifier has an Input in the registry.
Known(reg, id) == \E i \in DOMAIN reg : reg[i].identifier = id

C14_EveryInputBeganWithStart ==
    \A r \in DOMAIN inputs : \A i \in DOMAIN inputs[r] :
        inputs[r][i].initial.type = "start"

\* C15 as stated: once the registry update of the pass for a start event
\* with several contacts has run, every contact has an Input of its own that
\* the event created (a snapshot per contact), and through the dispatch
\* getInputsInPhase("start") holds them all.
C15_OneNewInputPerContact ==
    (/\ pc \in {"select", "dispatch"}
     /\ PHASE(event.type) = "start"
     /\ Len(EventIdentifiers(event)) > 1) =>
        LET reg == inputs[Head(queue)]
            started == getInputsInPhase(reg, "start")
        IN /\ \A id \in Range(EventIdentifiers(event)) :
                \E i \in DOMAIN reg :
                    /\ reg[i].identifier = id
                    /\ reg[i].initial.originalEvent = event
                    /\ reg[i].initial = reg[i].current
                    /\ \E k \in DOMAIN started : started[k] = reg[i]
           /\ \A i, j \in Carried(reg, event) :
                reg[i].initial.ref = reg[j].initial.ref => i = j

\* C16: every hook of a pass is called with the state of the Region whose
\* listener is running; that registry holds the Inputs of all identifiers
\* the raw event carries, it does not change while the hooks run, and no
\* step ever takes an Input that is not in a terminal phase out of a
\* registry: so the hook sees every alive input of the Region, whatever
\* the binding's element and whatever the event carries.
C16_HookReceivesWholeRegistry ==
    /\ [](pc = "dispatch" =>
            /\ \A k \in DOMAIN hookCalls : hookCalls[k].args = <<Head(queue)>>
            /\ \A id \in Range(EventIdentifiers(event)) :
                    Known(inputs[Head(queue)], id))
    /\ [][(pc = "dispatch" /\ pc' = "dispatch") => inputs' = inputs]_vars
    /\ [][\A r \in DOMAIN inputs : \A i \in DOMAIN inputs[r] :
            ~Terminal(inputs[r][i]) => Known(inputs'[r], inputs[r][i].identifier)]_vars

\* The hook of a binding of B has been called with the state of r1, which
\* holds two Inputs: the one the event carries, and one that began on A,
\* outside B, and is not carried by the event.
C16_Witness ==
    /\ pc = "dispatch"
    /\ Head(queue) = "r1"
    /\ \E k \in DOMAIN hookCalls :
        /\ hookCalls[k].args = <<"r1">>
        /\ BindingOf("r1", hookCalls[k].binding).element = "B"
    /\ Len(inputs["r1"]) = 2
    /\ \E i \in DOMAIN inputs["r1"] :
        /\ i \notin Carried(inputs["r1"], event)
        /\ ~wasInitiallyInside(inputs["r1"][i], "B")
    /\ \E i \in Carried(inputs["r1"], event) :
        wasInitiallyInside(inputs["r1"][i], "B")

\* C17: new PointerData() without an event throws, and so does
\* new PointerData(event, identifier) for an event that has changedTouches
\* none of which has the identifier; no PointerData is produced then.
\* With an event that holds the identifier, or has no changedTouches, the
\* object is produced.
C17_ConstructorThrowsWithoutEventObject ==
    unit.op = "PointerData" =>
        LET NoEventGiven == Len(unit.args) = 0
            NoSuchTouch ==
                /\ Len(unit.args) = 2
                /\ unit.args[1].hasTouches
                /\ \A k \in DOMAIN unit.args[1].changedTouches :
                        unit.args[1].changedTouches[k].identifier # unit.args[2]
        IN /\ (NoEventGiven \/ NoSuchTouch) => (pc = "threw" /\ returned = <<>>)
           /\ ~(NoEventGiven \/ NoSuchTouch) =>
                /\ pc = "unit"
                /\ Len(returned) = 1
                /\ returned[1].originalEvent = unit.args[1]

\* The payload holds touches 2 and 1 and identifier 3 was asked for.
C17_Witness ==
    /\ unit.op = "PointerData"
    /\ Len(unit.args) = 2
    /\ unit.args[1].hasTouches
    /\ Len(unit.args[1].changedTouches) = 2
    /\ unit.args[2] = 3
    /\ pc = "threw"
    /\ returned = <<>>

\* Position of the first identifier of the raw event that no touch of its
\* payload is strictly equal to, 0 when there is none.
FirstFailing(ev) ==
    LET ids == EventIdentifiers(ev)
        Bad == {k \in DOMAIN ids : ev.hasTouches /\ ids[k] = NaN}
    IN IF Bad = {} THEN 0 ELSE CHOOSE k \in Bad : \A l \in Bad : k <= l

\* The identifiers the update reached before the one it failed on.
TouchedBefore(ev) ==
    {EventIdentifiers(ev)[k] : k \in 1..(FirstFailing(ev) - 1)}

\* C18: when new PointerData throws during the registry update of a pass,
\* the error leaves arbitrate: the pass ends there, no hook and no handler
\* is called for the event, the binding lists are as before, and every
\* Input other than those of the identifiers reached before the failure is
\* as it was before the event; no other Input appears.
C18_UpdateErrorLeavesArbitrate ==
    /\ [][(pc = "update" /\ FirstFailing(event) > 0) =>
            LET was == inputs[Head(queue)]
                now == inputs'[Head(queue)]
            IN /\ pc' = "threw"
               /\ hookCalls' = <<>> /\ handlerCalls' = <<>>
               /\ bindings' = bindings
               /\ \A i \in DOMAIN was :
                    was[i].identifier \notin TouchedBefore(event) =>
                        (i \in DOMAIN now /\ now[i] = was[i])
               /\ \A i \in DOMAIN now \ DOMAIN was :
                    now[i].identifier \in TouchedBefore(event)]_vars
    /\ [][pc = "threw" =>
            /\ pc' \in {"idle", "update"}
            /\ hookCalls' = <<>> /\ handlerCalls' = <<>>
            /\ bindings' = bindings /\ inputs' = inputs]_vars
    /\ [](pc = "threw" =>
            selected = <<>> /\ hookCalls = <<>> /\ handlerCalls = <<>>)

\* The update of a move event failed on its second touch: the Input of
\* the first touch is updated, another Input is untouched, and the binding
\* of the element both began inside got no hook call.
C18_Witness ==
    /\ pc = "threw"
    /\ PHASE(event.type) = "move"
    /\ FirstFailing(event) = 2
    /\ Len(inputs["r1"]) = 2
    /\ \E i \in DOMAIN inputs["r1"] :
        /\ inputs["r1"][i].current.originalEvent = event
        /\ inputs["r1"][i].previous.ref # inputs["r1"][i].current.ref
    /\ \E i \in DOMAIN inputs["r1"] :
        /\ inputs["r1"][i].identifier \notin Range(EventIdentifiers(event))
        /\ inputs["r1"][i].current.originalEvent # event
    /\ \E b \in Range(bindings["r1"]) :
        \A i \in DOMAIN inputs["r1"] : wasInitiallyInside(inputs["r1"][i], b.element)
    /\ hookCalls = <<>>

\* C19: while the listener of one Region runs, the registry and the
\* binding list of every other Region stay as they are; a bind or unbind
\* call changes the binding list of one Region and no registry; an event
\* changes nothing before a listener runs; and the hooks called in the
\* pass of a Region are those of bindings registered on it and on no
\* other Region.
C19_RegionsShareNoState ==
    /\ [][pc # "idle" =>
            \A q \in DOMAIN region \ {Head(queue)} :
                inputs'[q] = inputs[q] /\ bindings'[q] = bindings[q]]_vars
    /\ [][pc = "idle" =>
            /\ inputs' = inputs
            /\ Cardinality({q \in DOMAIN region : bindings'[q] # bindings[q]}) <= 1
            /\ event' # event => bindings' = bindings]_vars
    /\ [](pc = "dispatch" =>
            \A k \in DOMAIN hookCalls :
                /\ hookCalls[k].binding \in Range(Refs(bindings[Head(queue)]))
                /\ \A q \in DOMAIN region \ {Head(queue)} :
                        hookCalls[k].binding \notin Range(Refs(bindings[q])))

\* The listener of r2 has called the hook of r2's binding; r1 has a
\* binding of its own and a registry with an Input that r2 never saw.
C19_Witness ==
    /\ pc = "dispatch"
    /\ Head(queue) = "r2"
    /\ hookCalls # <<>>
    /\ bindings["r1"] # <<>>
    /\ bindings["r2"] # <<>>
    /\ Len(inputs["r1"]) = 2
    /\ Len(inputs["r2"]) = 1
    /\ \E i \in DOMAIN inputs["r1"] : ~Known(inputs["r2"], inputs["r1"][i].identifier)

\* The start paths of the Inputs of a registry.
StartPaths(reg) == {reg[i].initialElements : i \in DOMAIN reg}

\* C20: whatever step the program takes, if it leaves the binding list of
\* a Region and the start paths of the Inputs of its registry as they
\* were, retrieveBindingsByInitialPos gives the same bindings in the same
\* order after it as before it, whatever else changed in the Inputs; the
\* selection step changes no registry and no binding list; and while the
\* hooks run, selecting again gives the list selected first.
C20_SelectionDependsOnStartPathsAndBindings ==
    /\ [][\A r \in DOMAIN region :
            (/\ bindings'[r] = bindings[r]
             /\ StartPaths(inputs'[r]) = StartPaths(inputs[r])) =>
                retrieveBindingsByInitialPos(bindings'[r], inputs'[r])
                    = retrieveBindingsByInitialPos(bindings[r], inputs[r])]_vars
    /\ [][pc = "select" => (inputs' = inputs /\ bindings' = bindings)]_vars
    /\ [](pc = "dispatch" =>
            retrieveBindingsByInitialPos(bindings[Head(queue)], inputs[Head(queue)])
                = selected)

\* The hooks of a move event have run: the one Input began on B and is now
\* over A only, a binding of B is selected and a binding of A, registered
\* first, is selected as well, in that order.
C20_Witness ==
    /\ pc = "dispatch"
    /\ idx > Len(selected)
    /\ PHASE(event.type) = "move"
    /\ event.target = "A"
    /\ Len(inputs[Head(queue)]) = 1
    /\ inputs[Head(queue)][1].initial.originalEvent.target = "B"
    /\ inputs[Head(queue)][1].current.originalEvent = event
    /\ [k \in DOMAIN selected |-> selected[k].element] = <<"A", "B">>
    /\ retrieveBindingsByInitialPos(bindings[Head(queue)], inputs[Head(queue)])
            = selected

\* C21 as stated: when the registry update of a pass begins, no Input of
\* an identifier the raw event carries is in a terminal phase, so update
\* is never called on an Input that has ended; a contact that reuses the
\* identifier of an ended one finds no Input left.
C21_NoUpdateOfEndedInput ==
    pc = "update" =>
        \A i \in Carried(inputs[Head(queue)], event) :
            ~Terminal(inputs[Head(queue)][i])

\* C26 as stated: once the listener has finished with an end event,
\* whether arbitrate returned or a hook threw, no Input in phase "end" is
\* left in the registry.
C26_NoEndedInputAfterPassEvenOnThrow ==
    (pc = "idle" /\ PHASE(event.type) = "end") =>
        \A r \in DOMAIN inputs : \A i \in DOMAIN inputs[r] :
            phase(inputs[r][i]) # "end"

\* C22: the hook that arbitrate dispatches is named by the phase of the raw
\* event, and while the hooks of a raw event run every Input that the event
\* created or updated has that phase: each hook invoked in the pass has the
\* name PHASE[event.type], which is a phase, and the current snapshot of
\* every carried Input was built from this event and has that type.
C22_HookNameIsPhaseOfCarriedInputs ==
    pc = "dispatch" =>
        LET reg == inputs[Head(queue)] IN
        /\ \A k \in DOMAIN hookCalls :
            /\ hookCalls[k].hook = PHASE(event.type)
            /\ hookCalls[k].hook \in Phases
            /\ \A i \in Carried(reg, event) : phase(reg[i]) = hookCalls[k].hook
        /\ \A i \in Carried(reg, event) :
            /\ reg[i].current.originalEvent = event
            /\ phase(reg[i]) = PHASE(event.type)

\* A move hook has run; the event updated an Input that began earlier, and
\* another Input, which the event does not carry, is in another phase.
C22_Witness ==
    /\ pc = "dispatch"
    /\ \E k \in DOMAIN hookCalls : hookCalls[k].hook = "move"
    /\ \E i \in Carried(inputs[Head(queue)], event) :
        /\ inputs[Head(queue)][i].initial.ref # inputs[Head(queue)][i].current.ref
        /\ phase(inputs[Head(queue)][i]) = "move"
    /\ \E i \in DOMAIN inputs[Head(queue)] :
        /\ i \notin Carried(inputs[Head(queue)], event)
        /\ phase(inputs[Head(queue)][i]) = "start"

\* A hook of the running pass is about to be called with the registry.
HookIsCalled == pc = "dispatch" /\ idx <= Len(selected)

\* The Inputs of the registry that the raw event created or updated.
TouchedBy(reg, ev) == {reg[i] : i \in Carried(reg, ev)}

\* C23 as stated: what getInputsInPhase(p) gives a hook of an event of
\* phase p is the inputs of this round: every Input the raw event created
\* or updated and no Input that it left untouched.
C23_InPhaseIsExactlyThisRound ==
    HookIsCalled =>
        LET reg == inputs[Head(queue)] IN
        Range(getInputsInPhase(reg, PHASE(event.type))) = TouchedBy(reg, event)

\* C23, amended: what getInputsInPhase(p) gives a hook of an event of
\* phase p is the Inputs whose latest snapshot has phase p, in the order of
\* the registry: it holds every Input the raw event created or updated,
\* and every other Input it holds was last touched by an earlier event of
\* the same phase (an Input that started earlier and has not moved since
\* is reported as 'start' when a second input starts).
C23_InPhaseHoldsThisRoundAndOlderOfSamePhase ==
    HookIsCalled =>
        LET reg == inputs[Head(queue)]
            p == PHASE(event.type)
            res == getInputsInPhase(reg, p)
        IN /\ TouchedBy(reg, event) \subseteq Range(res)
           /\ \A k \in DOMAIN res :
                \/ res[k] \in TouchedBy(reg, event)
                \/ /\ res[k].current.originalEvent # event
                   /\ PHASE(res[k].current.originalEvent.type) = p
                   /\ res[k].current.time < clock
           /\ \A k, l \in DOMAIN res :
                k < l => \E i, j \in DOMAIN reg :
                            i < j /\ reg[i] = res[k] /\ reg[j] = res[l]

\* The start hook is about to be called for a second contact while the
\* first, which has not moved, is still in phase 'start': both are given.
C23_Witness ==
    /\ HookIsCalled
    /\ PHASE(event.type) = "start"
    /\ Len(getInputsInPhase(inputs[Head(queue)], "start")) = 2
    /\ Cardinality(Carried(inputs[Head(queue)], event)) = 1

\* C24: the point of a PointerData built from (event, identifier) is the
\* clientX / clientY of the one entry of changedTouches that has the
\* identifier, wherever it stands in the list, when the event has
\* changedTouches, and the clientX / clientY of the event itself otherwise.
C24_PointOfTheIdentifiedTouch ==
    (unit.op = "PointerData" /\ pc = "unit") =>
        LET ev == unit.args[1]
            identifier == unit.args[2]
            Mine == {k \in DOMAIN ev.changedTouches :
                        ev.changedTouches[k].identifier = identifier}
        IN /\ Len(returned) = 1
           /\ ev.hasTouches =>
                /\ Cardinality(Mine) = 1
                /\ \A k \in Mine :
                    /\ returned[1].point.x = ev.changedTouches[k].clientX
                    /\ returned[1].point.y = ev.changedTouches[k].clientY
           /\ ~ev.hasTouches =>
                /\ returned[1].point.x = ev.clientX
                /\ returned[1].point.y = ev.clientY

\* The identifier is that of the second of two touches, which are at
\* different positions in both coordinates: the second's was recorded.
C24_Witness ==
    /\ unit.op = "PointerData"
    /\ pc = "unit"
    /\ unit.args[1].hasTouches
    /\ Len(unit.args[1].changedTouches) = 2
    /\ unit.args[1].changedTouches[2].identifier = unit.args[2]
    /\ unit.args[1].changedTouches[1].clientX # unit.args[1].changedTouches[2].clientX
    /\ unit.args[1].changedTouches[1].clientY # unit.args[1].changedTouches[2].clientY
    /\ returned[1].point = Point2D(unit.args[1].changedTouches[2].clientX,
                                   unit.args[1].changedTouches[2].clientY)

\* C25 as stated: when new PointerData throws inside input.update, the
\* Input's previous and current snapshots are what they were before the
\* call.
C25_FailedUpdateChangesNothing ==
    (pc = "threw" /\ unit.op = "update") =>
        /\ inputs["r1"][1].previous = unit.before[1].previous
        /\ inputs["r1"][1].current = unit.before[1].current

\* The bindings whose hook the running pass has invoked, in order.
Evaluated == [k \in DOMAIN hookCalls |-> hookCalls[k].binding]

\* C27: the bindings of a pass are fixed when the pass selects them, from
\* the bindings registered at that moment; a bind or unbind made by a
\* hook or handler while the pass runs changes this.bindings only: the
\* selection stays as it is, every hook evaluation of the pass is that of
\* the next selected binding, and the hooks invoked so far are those of
\* the first selected bindings, each once and in order.  The next pass
\* selects from the bindings as they are then.
C27_DispatchedBindingsAreFixed ==
    /\ [][pc = "select" =>
            selected' = retrieveBindingsByInitialPos(bindings[Head(queue)],
                                                     inputs[Head(queue)])]_vars
    /\ [][(pc = "dispatch" /\ pc' = "dispatch") =>
            /\ selected' = selected
            /\ idx' \in {idx, idx + 1}
            /\ idx' = idx => hookCalls' = hookCalls
            /\ idx' = idx + 1 =>
                hookCalls' = hookCalls \o HookInvocations(gestures, selected[idx],
                                             PHASE(event.type), Head(queue))]_vars
    /\ [](pc = "dispatch" =>
            /\ idx <= Len(selected) + 1
            /\ Evaluated = SubSeq(Refs(selected), 1, idx - 1))

\* Every hook of the pass has been invoked; meanwhile a hook unbound one
\* of the selected bindings and bound a new one on an element an input
\* began inside, so that a selection made now would differ in both ways.
C27_Witness ==
    /\ pc = "dispatch"
    /\ idx > Len(selected)
    /\ Len(hookCalls) = Len(selected)
    /\ LET now == retrieveBindingsByInitialPos(bindings[Head(queue)],
                                               inputs[Head(queue)])
       IN /\ \E b \in Range(selected) : b \notin Range(bindings[Head(queue)])
          /\ \E b \in Range(now) : b \notin Range(selected)

\* How many times the running pass has invoked a hook of the binding.
TimesEvaluated(ref) == Cardinality({k \in DOMAIN hookCalls : hookCalls[k].binding = ref})

\* C28: in one pass no binding has its hook evaluated twice, however many
\* inputs began inside its element and however many identifiers the raw
\* event carries; when the forEach is over, every registered binding that
\* some input began inside has been evaluated exactly once, two bindings
\* of one element and one gesture included, and every other binding not
\* at all.
C28_EachBindingEvaluatedAtMostOnce ==
    pc = "dispatch" =>
        LET r == Head(queue) IN
        /\ \A k \in DOMAIN hookCalls :
                \E i \in DOMAIN bindings[r] : bindings[r][i].ref = hookCalls[k].binding
        /\ \A i \in DOMAIN bindings[r] : TimesEvaluated(bindings[r][i].ref) <= 1
        /\ idx > Len(selected) =>
            \A i \in DOMAIN bindings[r] :
                TimesEvaluated(bindings[r][i].ref) =
                    IF someInputWasInitiallyInside(inputs[r], bindings[r][i].element)
                    THEN 1 ELSE 0

\* Two bindings of the same element and gesture, two inputs that began
\* inside the element, both carried by the raw event: two hook calls.
C28_Witness ==
    /\ pc = "dispatch"
    /\ idx > Len(selected)
    /\ Len(bindings[Head(queue)]) = 2
    /\ bindings[Head(queue)][1].element = bindings[Head(queue)][2].element
    /\ bindings[Head(queue)][1].gesture = bindings[Head(queue)][2].gesture
    /\ Cardinality(Carried(inputs[Head(queue)], event)) = 2
    /\ \A i \in DOMAIN inputs[Head(queue)] :
        wasInitiallyInside(inputs[Head(queue)][i], bindings[Head(queue)][1].element)
    /\ Len(hookCalls) = 2
    /\ TimesEvaluated(1) = 1
    /\ TimesEvaluated(2) = 1

====
